---- MODULE Spec2Model ----
(***************************************************************************)
(* Job ledger and transcode pipelines of ingest-stream-forge.              *)
(*                                                                         *)
(* The ledger is the transcoding_jobs table.  Three kinds of pipeline      *)
(* write to it: the browser pipeline (TranscodeButton.startTranscode,      *)
(* which drives transcodeToHls and uploads the bundle), the transcode edge *)
(* function (simulated encode) and its multi-resolution version.  The      *)
(* start-transcode and bulk-transcode handlers trigger the edge function.  *)
(* Every ledger write is `.update({...}).eq("id", jobId)`: one atomic row  *)
(* update with no condition on the row's current status.                   *)
(***************************************************************************)
EXTENDS Integers, Sequences, FiniteSets, TLC

\* ---------------------------------------------------------------- bounds
NumJobs == 1
NumProcs == 2
MaxProgressEvents == 1
MaxSegments == 1

NumCallers == 2
MaxVariantSegments == 2
MaxLines == 4
MaxLow == 27
MaxRequests == 12
MaxTicks == 2
TickMs == 30000

Jobs == 1..NumJobs
Procs == 1..NumProcs
Callers == 1..NumCallers

\* ------------------------------------------------------- program constants
ClientMarkProgress == 1
EdgeMarkProgress == 10
EdgeLoopFirst == 20
EdgeLoopLast == 90
EdgeLoopStep == 10
CompletedProgress == 100
MinPercent == 1
MaxPercent == 99
MaxRatioMilli == 990
MultiBase == 20
MultiSpan == 70
BulkMaxJobs == 100
vBitrate == 2000
aBitrate == 128
approxBitrate == (vBitrate + aBitrate) * 1000

NULL == "null"
Owner == "owner"
Other == "other"
Anon == "anon"

\* Ratios the codec runtime reports, in thousandths (ffmpeg.wasm's progress is
\* not confined to [0, 1]).
Ratios == {0, 455, 1500}

\* Sizes (in units of 10^8 bytes) the multi-resolution function draws with
\* Math.random: between 1 and 6 units.
EstimatedSizes == {3}

\* Byte lengths a segment of the bundle can have; the playlists and the init
\* segment are one byte long in the model.
SegmentSizes == {2}

masterName == "master.m3u8"
variantName == "v720p.m3u8"
initName == "v720p_init.mp4"

SegName(i) == IF i = 1 THEN "v720p_000.m4s"
              ELSE IF i = 2 THEN "v720p_001.m4s"
              ELSE "v720p_002.m4s"

\* ---------------------------------------------------------------- helpers
Min(a, b) == IF a < b THEN a ELSE b
Max(a, b) == IF a > b THEN a ELSE b

RECURSIVE SumOver(_, _)
SumOver(f, S) == IF S = {} THEN 0
                 ELSE LET x == CHOOSE y \in S : TRUE
                      IN  f[x] + SumOver(f, S \ {x})

RECURSIVE SumSizes(_)
SumSizes(vs) == IF vs = << >> THEN 0
                ELSE Head(vs).size_bytes + SumSizes(Tail(vs))

\* The progress callback of startTranscode: ratio (thousandths) to percent.
PercentOf(ratio) == Max(MinPercent, Min(MaxPercent, (ratio * 100) \div 1000))

\* ff.on('progress'): the listener of transcodeToHls caps the ratio at 0.99.
CapRatio(progress) == Min(MaxRatioMilli, progress)

\* The bundles transcodeToHls can return: the variant playlist, the init
\* segment, k segments and the master manifest, with their byte lengths.
BundleOf(k, s) ==
    [f \in {masterName, variantName, initName} \cup {SegName(i) : i \in 1..k} |->
        IF f \in {masterName, variantName, initName} THEN 1 ELSE s]

Bundles == {BundleOf(k, s) : k \in 1..MaxSegments, s \in SegmentSizes}

NoBundle == [f \in {} |-> 0]

resolutions == <<
    [name |-> "2160p", width |-> 3840, height |-> 2160, bitrate |-> 20000000],
    [name |-> "1080p", width |-> 1920, height |-> 1080, bitrate |-> 8000000],
    [name |-> "720p",  width |-> 1280, height |-> 720,  bitrate |-> 5000000],
    [name |-> "480p",  width |-> 854,  height |-> 480,  bitrate |-> 2500000],
    [name |-> "360p",  width |-> 640,  height |-> 360,  bitrate |-> 1000000] >>

\* ------------------------------------------------------------------ state
VARIABLES
    created,     \* ids of the rows of transcoding_jobs
    ledger,      \* the rows
    proc,        \* the invocations: position and local variables
    inflight,    \* progress updates sent to the ledger and not yet applied
    bulkBatch,   \* jobs a bulk-transcode request has checked and not yet triggered
    ffmpeg,      \* hlsTranscoder's module variable: the codec runtime of the process
    fs,          \* the scratch file system of the runtime
    call,        \* the transcodeToHls calls of the process: position and locals
    composer,    \* the manifest composer's functions applied to given inputs
    request,     \* the HTTP request each invocation slot is serving: its body
    limiter      \* start-transcode's isolate: its clock, rateLimitMap, its answers

ledgerVars == <<created, ledger, proc, inflight, bulkBatch>>
engineVars == <<ffmpeg, fs, call>>
vars == <<created, ledger, proc, inflight, bulkBatch, ffmpeg, fs, call, composer,
         request, limiter>>

\* The column defaults of the table.
DefaultRow ==
    [status |-> "pending", progress |-> 0, error_message |-> NULL,
     output_url |-> NULL, resolution_variants |-> << >>, total_size_bytes |-> 0,
     processing_node |-> NULL, input_file_url |-> NULL]

IdleProc ==
    [pc |-> "idle", kind |-> "none", job |-> 0, user |-> Anon, seen |-> NULL,
     err |-> NULL, n |-> 0, up |-> 0, okUp |-> 0, hls |-> NoBundle,
     variants |-> << >>, bodyUsed |-> FALSE, marked |-> FALSE]

\* The process before any call of transcodeToHls: `let ffmpeg = null`, an empty
\* scratch file system, no call.
NoFiles == [f \in {} |-> NULL]

IdleCall ==
    [pc |-> "idle", received |-> << >>, code |-> 0, referenced |-> {},
     files |-> NoFiles, err |-> NULL]

EngineInit ==
    /\ ffmpeg = [instance |-> FALSE, loaded |-> FALSE, loading |-> 0, loads |-> 0,
                 listeners |-> {}, exec |-> 0, input |-> 0, events |-> 0]
    /\ fs = NoFiles
    /\ call = [c \in Callers |-> IdleCall]

IdleComposer ==
    [playlist |-> "", variant |-> "", bandwidth |-> << >>, referenced |-> {},
     again |-> {}, reparsed |-> {}, master |-> "", masterAgain |-> "",
     done |-> {}]

ComposerIdle == composer = IdleComposer

\* A value of a JSON body as the handler sees it: its typeof, its text when it
\* is a string, its number when it is a number.  `undefined` is what
\* destructuring { jobId } gives for a body without the key.
Undefined == [type |-> "undefined", text |-> "", num |-> 0]

\* No request received by the slot.
IdleRequest ==
    [fn |-> "none", pc |-> "idle", user |-> Anon, json |-> TRUE, jobId |-> Undefined,
     kind |-> "none", selected |-> FALSE, triggered |-> FALSE, err |-> NULL]

RequestIdle == request = [p \in Procs |-> IdleRequest]

\* The users that hold a session.
Users == {Owner, Other}

\* The instants Date.now() takes, in milliseconds.
Times == {i * TickMs : i \in 0..MaxTicks}

\* The start-transcode isolate before any request: `new Map()`, nothing
\* answered.  admitted and limited count, per user and instant, the requests
\* that passed the rate limit and those answered 429; triggered counts the
\* transcode invocations started.
LimiterIdle ==
    limiter = [now |-> 0, rateLimitMap |-> [u \in {} |-> NULL], requests |-> 0,
               admitted |-> [u \in Users |-> [t \in Times |-> 0]],
               limited |-> [u \in Users |-> [t \in Times |-> 0]],
               triggered |-> [u \in Users |-> [t \in Times |-> 0]]]

LedgerInit ==
    /\ created = {}
    /\ ledger = [j \in Jobs |-> DefaultRow]
    /\ proc = [p \in Procs |-> IdleProc]
    /\ inflight = {}
    /\ bulkBatch = {}

Init == LedgerInit /\ EngineInit /\ ComposerIdle /\ RequestIdle /\ LimiterIdle

\* ------------------------------------------------------------ the ledger
\* Row-level security: a user reads and updates only rows they own; the
\* service role bypasses it.  Every job of the model belongs to Owner.
RlsAllows(u, j) == u = Owner \/ u = "service"

\* supabase.from("transcoding_jobs").update(fields).eq("id", j) as user u:
\* the row's listed fields are overwritten whatever its current status.
LedgerUpdate(u, j, fields) ==
    IF j \in created /\ RlsAllows(u, j)
    THEN [ledger EXCEPT ![j] =
            [k \in DOMAIN ledger[j] |->
                IF k \in DOMAIN fields THEN fields[k] ELSE ledger[j][k]]]
    ELSE ledger

\* FileUpload.handleUpload (and the documented REST insert): a new row, status
\* pending.  The REST insert takes any input_file_url, the empty string included.
handleUpload(j, url) ==
    /\ j \notin created
    /\ created' = created \cup {j}
    /\ ledger' = [ledger EXCEPT ![j] =
                    [DefaultRow EXCEPT !.status = "pending", !.input_file_url = url]]
    /\ UNCHANGED <<proc, inflight, bulkBatch, engineVars, composer, request, limiter>>

\* ------------------------------------------- TranscodeButton.startTranscode
\* JobQueue renders one TranscodeButton per row it has fetched; the status prop
\* is the status of that fetch and can be stale by the time of the click.
ClientRender(p, j) ==
    /\ proc[p].pc = "idle"
    /\ j \in created
    /\ proc' = [proc EXCEPT ![p] =
                  [IdleProc EXCEPT !.pc = "c_button", !.kind = "client", !.job = j,
                                   !.seen = ledger[j].status]]
    /\ UNCHANGED <<created, ledger, inflight, bulkBatch, engineVars, composer, request, limiter>>

\* The button exists only while the status prop is "pending".  The click runs
\* supabase.auth.getUser(): without a user the pipeline throws at once.
ClientClick(p, authed) ==
    /\ proc[p].pc = "c_button"
    /\ proc[p].seen = "pending"
    /\ proc' = [proc EXCEPT ![p] =
                  IF authed
                  THEN [@ EXCEPT !.pc = "c_fetch", !.user = Owner]
                  ELSE [@ EXCEPT !.pc = "c_catch", !.user = Anon,
                                 !.err = "Not authenticated"]]
    /\ UNCHANGED <<created, ledger, inflight, bulkBatch, engineVars, composer, request, limiter>>

\* select("input_file_url,user_id").eq("id", jobId).single(); the status is
\* not read.  ok = FALSE: the query returns an error (jobErr).
ClientFetchJob(p, ok) ==
    /\ proc[p].pc = "c_fetch"
    /\ proc' = [proc EXCEPT ![p] =
                  IF ~ok \/ proc[p].job \notin created
                  THEN [@ EXCEPT !.pc = "c_catch", !.err = "jobErr"]
                  ELSE IF ledger[proc[p].job].input_file_url = ""
                  THEN [@ EXCEPT !.pc = "c_catch", !.err = "Missing input file URL"]
                  ELSE [@ EXCEPT !.pc = "c_mark"]]
    /\ UNCHANGED <<created, ledger, inflight, bulkBatch, engineVars, composer, request, limiter>>

\* update({ status: "processing", progress: 1 }).eq("id", jobId)
ClientMark(p) ==
    /\ proc[p].pc = "c_mark"
    /\ ledger' = LedgerUpdate(proc[p].user, proc[p].job,
                    [status |-> "processing", progress |-> ClientMarkProgress])
    /\ proc' = [proc EXCEPT ![p] = [@ EXCEPT !.pc = "c_download", !.marked = TRUE]]
    /\ UNCHANGED <<created, inflight, bulkBatch, engineVars, composer, request, limiter>>

\* fetch(job.input_file_url); !res.ok throws.
ClientDownload(p, ok) ==
    /\ proc[p].pc = "c_download"
    /\ proc' = [proc EXCEPT ![p] =
                  IF ok THEN [@ EXCEPT !.pc = "c_encode", !.n = 0]
                  ELSE [@ EXCEPT !.pc = "c_catch",
                                 !.err = "Failed to download source file"]]
    /\ UNCHANGED <<created, ledger, inflight, bulkBatch, engineVars, composer, request, limiter>>

\* The progress callback: an async function whose ledger update is sent and
\* not awaited by the engine, so the updates of one encode are applied by the
\* ledger in any order.
SendProgress(p, ratio) ==
    inflight \cup {[src |-> p, n |-> proc[p].n + 1, job |-> proc[p].job,
                    user |-> proc[p].user, percent |-> PercentOf(ratio)]}

\* A progress event of ff.exec during transcodeToHls.
TranscodeProgress(p, r) ==
    /\ proc[p].pc = "c_encode"
    /\ proc[p].n < MaxProgressEvents
    /\ inflight' = SendProgress(p, CapRatio(r))
    /\ proc' = [proc EXCEPT ![p].n = @ + 1]
    /\ UNCHANGED <<created, ledger, bulkBatch, engineVars, composer, request, limiter>>

\* transcodeToHls returns: onProgress?.(1), then the bundle.  startTranscode
\* starts every upload at once (Object.entries(hls.files).map(async ...)).
TranscodeReturn(p, b) ==
    /\ proc[p].pc = "c_encode"
    /\ inflight' = SendProgress(p, 1000)
    /\ proc' = [proc EXCEPT ![p] =
                  [@ EXCEPT !.pc = "c_upload", !.n = @ + 1, !.hls = b,
                            !.up = Cardinality(DOMAIN b)]]
    /\ UNCHANGED <<created, ledger, bulkBatch, engineVars, composer, request, limiter>>

\* transcodeToHls throws (runtime load, scratch write, exec, readFile).  An
\* error can carry an empty message.
TranscodeThrow(p, m) ==
    /\ proc[p].pc = "c_encode"
    /\ proc' = [proc EXCEPT ![p] = [@ EXCEPT !.pc = "c_catch", !.err = m]]
    /\ UNCHANGED <<created, ledger, inflight, bulkBatch, engineVars, composer, request, limiter>>

\* The ledger applies a progress update: update({ progress: percent }).
LedgerProgressWrite(m) ==
    /\ m \in inflight
    /\ ledger' = LedgerUpdate(m.user, m.job, [progress |-> m.percent])
    /\ inflight' = inflight \ {m}
    /\ UNCHANGED <<created, proc, bulkBatch, engineVars, composer, request, limiter>>

\* One upload resolves: storage.upload(path, blob, { upsert: true }).  The
\* uploads of a bundle differ only in the file they carry, so the model counts
\* them: up are still running, okUp have stored their file.
UploadOk(p) ==
    /\ proc[p].up > 0
    /\ proc' = [proc EXCEPT ![p] = [@ EXCEPT !.up = @ - 1, !.okUp = @ + 1]]
    /\ UNCHANGED <<created, ledger, inflight, bulkBatch, engineVars, composer, request, limiter>>

\* One upload returns an error that is not thrown.
UploadFailSwallowed(p) ==
    /\ proc[p].up > 0
    /\ proc' = [proc EXCEPT ![p].up = @ - 1]
    /\ UNCHANGED <<created, ledger, inflight, bulkBatch, engineVars, composer, request, limiter>>

\* One upload returns an error and throws.  The first rejection rejects
\* Promise.all and enters the catch block; the other uploads keep running.
UploadFail(p) ==
    /\ proc[p].up > 0
    /\ proc' = [proc EXCEPT ![p] =
                  IF proc[p].pc = "c_upload"
                  THEN [@ EXCEPT !.up = @ - 1, !.pc = "c_catch",
                                 !.err = "storage error"]
                  ELSE [@ EXCEPT !.up = @ - 1]]
    /\ UNCHANGED <<created, ledger, inflight, bulkBatch, engineVars, composer, request, limiter>>

\* Promise.all resolved: the completion update.
ClientComplete(p) ==
    /\ proc[p].pc = "c_upload"
    /\ proc[p].up = 0
    /\ LET totalSize == SumOver(proc[p].hls, DOMAIN proc[p].hls)
       IN  ledger' = LedgerUpdate(proc[p].user, proc[p].job,
              [status |-> "completed", progress |-> CompletedProgress,
               output_url |-> masterName,
               resolution_variants |->
                  << [resolution |-> "720p", width |-> 1280, height |-> 720,
                      bitrate |-> approxBitrate, url |-> variantName,
                      size_bytes |-> totalSize] >>,
               total_size_bytes |-> totalSize])
    /\ proc' = [proc EXCEPT ![p].pc = "returned"]
    /\ UNCHANGED <<created, inflight, bulkBatch, engineVars, composer, request, limiter>>

\* The catch block: update({ status: "failed", error_message: error.message
\* || "Transcode failed" }), whatever step threw.
ClientCatch(p) ==
    /\ proc[p].pc = "c_catch"
    /\ ledger' = LedgerUpdate(proc[p].user, proc[p].job,
                    [status |-> "failed",
                     error_message |-> IF proc[p].err = "" THEN "Transcode failed"
                                       ELSE proc[p].err])
    /\ proc' = [proc EXCEPT ![p].pc = "caught"]
    /\ UNCHANGED <<created, inflight, bulkBatch, engineVars, composer, request, limiter>>

\* ------------------------------------------------- the transcode function
\* Both versions of the function (the simulated encode and the simulated
\* multi-resolution encode) start alike and share the error handler.
EdgeKinds == {"edge", "multi"}

\* What a trigger starts: an invocation of the transcode function with the
\* body { jobId: j }.
Invocation(k, j) ==
    [IdleProc EXCEPT !.pc = "e_parse", !.kind = k, !.job = j, !.user = "service"]

\* const { jobId } = await req.json(): the request body is consumed.
EdgeParse(p) ==
    /\ proc[p].pc = "e_parse"
    /\ proc' = [proc EXCEPT ![p] = [@ EXCEPT !.pc = "e_fetch", !.bodyUsed = TRUE]]
    /\ UNCHANGED <<created, ledger, inflight, bulkBatch, engineVars, composer, request, limiter>>

\* select("*").eq("id", jobId).single() with the service role; the row's
\* status is in the result and is not looked at.
EdgeFetchJob(p) ==
    /\ proc[p].pc = "e_fetch"
    /\ proc' = [proc EXCEPT ![p] =
                  IF proc[p].job \in created
                  THEN [@ EXCEPT !.pc = "e_mark", !.seen = ledger[proc[p].job].status]
                  ELSE [@ EXCEPT !.pc = "e_catch", !.err = "Job not found"]]
    /\ UNCHANGED <<created, ledger, inflight, bulkBatch, engineVars, composer, request, limiter>>

\* update({ status: "processing", progress: 10 }).eq("id", jobId)
EdgeMark(p) ==
    /\ proc[p].pc = "e_mark"
    /\ ledger' = LedgerUpdate("service", proc[p].job,
                    [status |-> "processing", progress |-> EdgeMarkProgress])
    /\ proc' = [proc EXCEPT ![p] =
                  IF proc[p].kind = "edge"
                  THEN [@ EXCEPT !.pc = "e_loop", !.n = EdgeLoopFirst, !.marked = TRUE]
                  ELSE [@ EXCEPT !.pc = "m_node", !.marked = TRUE]]
    /\ UNCHANGED <<created, inflight, bulkBatch, engineVars, composer, request, limiter>>

\* for (let progress = 20; progress <= 90; progress += 10) update({ progress })
EdgeProgress(p) ==
    /\ proc[p].pc = "e_loop"
    /\ proc[p].n <= EdgeLoopLast
    /\ ledger' = LedgerUpdate("service", proc[p].job, [progress |-> proc[p].n])
    /\ proc' = [proc EXCEPT ![p].n = @ + EdgeLoopStep]
    /\ UNCHANGED <<created, inflight, bulkBatch, engineVars, composer, request, limiter>>

\* update({ status: "completed", progress: 100, output_url: outputUrl })
EdgeComplete(p) ==
    /\ proc[p].pc = "e_loop"
    /\ proc[p].n > EdgeLoopLast
    /\ ledger' = LedgerUpdate("service", proc[p].job,
                    [status |-> "completed", progress |-> CompletedProgress,
                     output_url |-> "example.com/master.m3u8"])
    /\ proc' = [proc EXCEPT ![p].pc = "returned"]
    /\ UNCHANGED <<created, inflight, bulkBatch, engineVars, composer, request, limiter>>

\* Multi-resolution version: the second processing update, with processing_node.
MultiNode(p) ==
    /\ proc[p].pc = "m_node"
    /\ ledger' = LedgerUpdate("service", proc[p].job,
                    [status |-> "processing", progress |-> EdgeMarkProgress,
                     processing_node |-> "edge-function"])
    /\ proc' = [proc EXCEPT ![p] = [@ EXCEPT !.pc = "m_loop", !.variants = << >>]]
    /\ UNCHANGED <<created, inflight, bulkBatch, engineVars, composer, request, limiter>>

\* One turn of the loop over resolutions: the variant is pushed and the row
\* gets progress, resolution_variants and total_size_bytes.
MultiResolution(p, estimatedSize) ==
    /\ proc[p].pc = "m_loop"
    /\ Len(proc[p].variants) < Len(resolutions)
    /\ LET i == Len(proc[p].variants)
           res == resolutions[i + 1]
           progress == MultiBase + ((i + 1) * MultiSpan) \div Len(resolutions)
           variants == Append(proc[p].variants,
                          [resolution |-> res.name, width |-> res.width,
                           height |-> res.height, bitrate |-> res.bitrate,
                           url |-> res.name, size_bytes |-> estimatedSize])
       IN  /\ ledger' = LedgerUpdate("service", proc[p].job,
                          [progress |-> progress,
                           resolution_variants |-> variants,
                           total_size_bytes |-> SumSizes(variants)])
           /\ proc' = [proc EXCEPT ![p].variants = variants]
    /\ UNCHANGED <<created, inflight, bulkBatch, engineVars, composer, request, limiter>>

MultiComplete(p) ==
    /\ proc[p].pc = "m_loop"
    /\ Len(proc[p].variants) = Len(resolutions)
    /\ ledger' = LedgerUpdate("service", proc[p].job,
                    [status |-> "completed", progress |-> CompletedProgress,
                     output_url |-> masterName,
                     resolution_variants |-> proc[p].variants,
                     total_size_bytes |-> SumSizes(proc[p].variants)])
    /\ proc' = [proc EXCEPT ![p].pc = "returned"]
    /\ UNCHANGED <<created, inflight, bulkBatch, engineVars, composer, request, limiter>>

\* An awaited call of the try block rejects after the row was marked.
EdgeThrow(p) ==
    /\ proc[p].pc \in {"e_loop", "m_node", "m_loop"}
    /\ proc' = [proc EXCEPT ![p] = [@ EXCEPT !.pc = "e_catch", !.err = "rejected"]]
    /\ UNCHANGED <<created, ledger, inflight, bulkBatch, engineVars, composer, request, limiter>>

\* The body of the catch block once req.text() has returned.
EdgeFailedUpdate(p) ==
    LedgerUpdate("service", proc[p].job,
        [status |-> "failed", error_message |-> "Processing failed"])

\* The catch block reads the body again: await req.text().  A body that
\* req.json() has consumed makes req.text() reject, the inner catch logs it
\* and the row is not written.
EdgeCatch(p) ==
    /\ proc[p].pc = "e_catch"
    /\ ledger' = IF proc[p].bodyUsed THEN ledger ELSE EdgeFailedUpdate(p)
    /\ proc' = [proc EXCEPT ![p].pc = "caught"]
    /\ UNCHANGED <<created, inflight, bulkBatch, engineVars, composer, request, limiter>>

\* ------------------------------------------------------------- the triggers
\* start-transcode: the caller is authenticated, the job is visible to the
\* caller (row-level security), then the transcode function is triggered and
\* not awaited.  The row's status is not looked at.
StartTranscode(p, j, u, k) ==
    /\ proc[p].pc = "idle"
    /\ u # Anon
    /\ j \in created /\ RlsAllows(u, j)
    /\ proc' = [proc EXCEPT ![p] = Invocation(k, j)]
    /\ UNCHANGED <<created, ledger, inflight, bulkBatch, engineVars, composer, request, limiter>>

\* The earlier start-transcode: any truthy jobId triggers the function.
StartTranscodeEarlier(p, j, k) ==
    /\ proc[p].pc = "idle"
    /\ proc' = [proc EXCEPT ![p] = Invocation(k, j)]
    /\ UNCHANGED <<created, ledger, inflight, bulkBatch, engineVars, composer, request, limiter>>

\* bulk-transcode, up to the trigger loop: 1..100 ids, every listed job visible
\* to the caller and pending when read.
BulkCheck(js, u) ==
    /\ bulkBatch = {}
    /\ u # Anon
    /\ js # {} /\ Cardinality(js) <= BulkMaxJobs
    /\ \A j \in js : j \in created /\ RlsAllows(u, j)
    /\ \A j \in js : ledger[j].status = "pending"
    /\ bulkBatch' = js
    /\ UNCHANGED <<created, ledger, proc, inflight, engineVars, composer, request, limiter>>

\* One turn of the trigger loop: fetch(transcodeUrl, { body: { jobId } }).
BulkTrigger(p, j, k) ==
    /\ j \in bulkBatch
    /\ proc[p].pc = "idle"
    /\ proc' = [proc EXCEPT ![p] = Invocation(k, j)]
    /\ bulkBatch' = bulkBatch \ {j}
    /\ UNCHANGED <<created, ledger, inflight, engineVars, composer, request, limiter>>

\* ------------------------------------------------------------------- Next
Next ==
    \/ \E j \in Jobs, url \in {"url", ""} : handleUpload(j, url)
    \/ \E p \in Procs, j \in Jobs : ClientRender(p, j)
    \/ \E p \in Procs, authed \in BOOLEAN : ClientClick(p, authed)
    \/ \E p \in Procs, ok \in BOOLEAN : ClientFetchJob(p, ok)
    \/ \E p \in Procs : ClientMark(p)
    \/ \E p \in Procs, ok \in BOOLEAN : ClientDownload(p, ok)
    \/ \E p \in Procs, r \in Ratios : TranscodeProgress(p, r)
    \/ \E p \in Procs, b \in Bundles : TranscodeReturn(p, b)
    \/ \E p \in Procs, m \in {"ffmpeg failed", ""} : TranscodeThrow(p, m)
    \/ \E m \in inflight : LedgerProgressWrite(m)
    \/ \E p \in Procs : UploadOk(p)
    \/ \E p \in Procs : UploadFail(p)
    \/ \E p \in Procs : ClientComplete(p)
    \/ \E p \in Procs : ClientCatch(p)
    \/ \E p \in Procs : EdgeParse(p)
    \/ \E p \in Procs : EdgeFetchJob(p)
    \/ \E p \in Procs : EdgeMark(p)
    \/ \E p \in Procs : EdgeProgress(p)
    \/ \E p \in Procs : EdgeComplete(p)
    \/ \E p \in Procs : MultiNode(p)
    \/ \E p \in Procs, s \in EstimatedSizes : MultiResolution(p, s)
    \/ \E p \in Procs : MultiComplete(p)
    \/ \E p \in Procs : EdgeThrow(p)
    \/ \E p \in Procs : EdgeCatch(p)
    \/ \E p \in Procs, j \in Jobs, u \in {Owner, Other, Anon}, k \in EdgeKinds :
          StartTranscode(p, j, u, k)
    \/ \E p \in Procs, j \in Jobs, k \in EdgeKinds : StartTranscodeEarlier(p, j, k)
    \/ \E js \in SUBSET Jobs, u \in {Owner, Other, Anon} : BulkCheck(js, u)
    \/ \E p \in Procs, j \in Jobs, k \in EdgeKinds : BulkTrigger(p, j, k)

Spec == Init /\ [][Next]_vars

\* One browser pipeline on its own: a single TranscodeButton, no other caller.
Solo == {1}

NextSolo ==
    \/ \E j \in Jobs, url \in {"url", ""} : handleUpload(j, url)
    \/ \E p \in Solo, j \in Jobs : ClientRender(p, j)
    \/ \E p \in Solo, authed \in BOOLEAN : ClientClick(p, authed)
    \/ \E p \in Solo, ok \in BOOLEAN : ClientFetchJob(p, ok)
    \/ \E p \in Solo : ClientMark(p)
    \/ \E p \in Solo, ok \in BOOLEAN : ClientDownload(p, ok)
    \/ \E p \in Solo, r \in Ratios : TranscodeProgress(p, r)
    \/ \E p \in Solo, b \in Bundles : TranscodeReturn(p, b)
    \/ \E p \in Solo, m \in {"ffmpeg failed", ""} : TranscodeThrow(p, m)
    \/ \E m \in inflight : LedgerProgressWrite(m)
    \/ \E p \in Solo : UploadOk(p)
    \/ \E p \in Solo : UploadFail(p)
    \/ \E p \in Solo : ClientComplete(p)
    \/ \E p \in Solo : ClientCatch(p)

SpecSolo == Init /\ [][NextSolo]_vars

\* ------------------------------------------------------- strings, numbers
\* Playlists and manifests are strings; CharAt, StartsWith, Split and Trim are
\* JavaScript's s[i], startsWith, split(/\r?\n/) and trim on them.
CharAt(s, i) == SubSeq(s, i, i)

StartsWith(s, t) == Len(s) >= Len(t) /\ SubSeq(s, 1, Len(t)) = t

Whitespace == {" ", "\t", "\r", "\f"}

MinOf(S) == CHOOSE x \in S : \A y \in S : x <= y

\* The lines from index start on; nl holds the indexes of the line feeds.  A
\* carriage return just before a line feed belongs to the separator.
RECURSIVE SplitFrom(_, _, _)
SplitFrom(s, start, nl) ==
    IF nl = {} THEN << SubSeq(s, start, Len(s)) >>
    ELSE LET i == MinOf(nl)
             end == IF i > start /\ CharAt(s, i - 1) = "\r" THEN i - 2 ELSE i - 1
         IN  << SubSeq(s, start, end) >> \o SplitFrom(s, i + 1, nl \ {i})

Split(s) == SplitFrom(s, 1, {i \in 1..Len(s) : CharAt(s, i) = "\n"})

RECURSIVE TrimStart(_)
TrimStart(s) ==
    IF s # "" /\ CharAt(s, 1) \in Whitespace
    THEN TrimStart(SubSeq(s, 2, Len(s))) ELSE s

RECURSIVE TrimEnd(_)
TrimEnd(s) ==
    IF s # "" /\ CharAt(s, Len(s)) \in Whitespace
    THEN TrimEnd(SubSeq(s, 1, Len(s) - 1)) ELSE s

Trim(s) == TrimEnd(TrimStart(s))

\* [a, b, ...].join('\n')
RECURSIVE Join(_)
Join(lines) ==
    IF lines = << >> THEN ""
    ELSE IF Len(lines) = 1 THEN lines[1]
    ELSE lines[1] \o "\n" \o Join(Tail(lines))

\* line.match(/URI="([^"]+)"/)?.[1]: the capture of the leftmost match, or
\* NULL without a match.  A match starts at i when URI=" is there and the next
\* '"' after it is at least one character further.
NextQuote(s, i) == MinOf({j \in i..Len(s) + 1 : j > Len(s) \/ CharAt(s, j) = "\""})

UriMatches(s) ==
    {i \in 1..Len(s) - 4 :
        /\ SubSeq(s, i, i + 4) = "URI=\""
        /\ NextQuote(s, i + 5) > i + 5
        /\ NextQuote(s, i + 5) <= Len(s)}

MatchUri(s) ==
    IF UriMatches(s) = {} THEN NULL
    ELSE LET i == MinOf(UriMatches(s))
         IN  SubSeq(s, i + 5, NextQuote(s, i + 5) - 1)

\* JavaScript numbers that hold integers above TLC's 32 bits: a natural number
\* is the sequence of its digits in base 10^4, least significant first, zero
\* the empty sequence.
Base == 10000

RECURSIVE Digits(_)
Digits(n) == IF n = 0 THEN << >> ELSE << n % Base >> \o Digits(n \div Base)

RECURSIVE Canon(_)
Canon(d) == IF d # << >> /\ d[Len(d)] = 0 THEN Canon(SubSeq(d, 1, Len(d) - 1)) ELSE d

\* `${n}`: the decimal text of an integer below 10^21.
Padded(x) ==
    IF x < 10 THEN "000" \o ToString(x)
    ELSE IF x < 100 THEN "00" \o ToString(x)
    ELSE IF x < 1000 THEN "0" \o ToString(x)
    ELSE ToString(x)

RECURSIVE NumText(_)
NumText(d) ==
    IF Len(d) = 1 THEN ToString(d[1]) ELSE NumText(Tail(d)) \o Padded(Head(d))

NumStr(d) == IF d = << >> THEN "0" ELSE NumText(d)

RECURSIVE AddCarry(_, _, _)
AddCarry(a, b, carry) ==
    IF a = << >> /\ b = << >> THEN Digits(carry)
    ELSE LET x == IF a = << >> THEN 0 ELSE Head(a)
             y == IF b = << >> THEN 0 ELSE Head(b)
             t == x + y + carry
         IN  << t % Base >> \o AddCarry(IF a = << >> THEN a ELSE Tail(a),
                                        IF b = << >> THEN b ELSE Tail(b),
                                        t \div Base)

Add(a, b) == Canon(AddCarry(a, b, 0))

\* a * k for 0 <= k < Base.
RECURSIVE MulSmallCarry(_, _, _)
MulSmallCarry(a, k, carry) ==
    IF a = << >> THEN Digits(carry)
    ELSE LET t == Head(a) * k + carry
         IN  << t % Base >> \o MulSmallCarry(Tail(a), k, t \div Base)

MulSmall(a, k) == Canon(MulSmallCarry(a, k, 0))

RECURSIVE Mul(_, _)
Mul(a, b) ==
    IF b = << >> THEN << >>
    ELSE Add(MulSmall(a, Head(b)), Canon(<< 0 >> \o Mul(a, Tail(b))))

\* floor(a / k) for a small k, by long division from the most significant digit.
RECURSIVE DivSmallFrom(_, _, _)
DivSmallFrom(a, k, i) ==
    IF i = 0 THEN [q |-> << >>, r |-> 0]
    ELSE LET hi == DivSmallFrom(a, k, i - 1)
             t == hi.r * Base + a[Len(a) - i + 1]
         IN  [q |-> << t \div k >> \o hi.q, r |-> t % k]

DivSmall(a, k) == Canon(DivSmallFrom(a, k, Len(a)).q)

Odd(a) == a # << >> /\ a[1] % 2 = 1

\* floor(a / 2): each digit is halved and takes Base / 2 from an odd digit
\* above it.
Half(a) ==
    Canon([i \in 1..Len(a) |->
             (a[i] \div 2)
             + IF i < Len(a) /\ a[i + 1] % 2 = 1 THEN Base \div 2 ELSE 0])

\* a >= b, for canonical a and b.
RECURSIVE GeqFrom(_, _, _)
GeqFrom(a, b, i) ==
    IF i = 0 THEN TRUE
    ELSE IF a[i] # b[i] THEN a[i] > b[i]
    ELSE GeqFrom(a, b, i - 1)

Geq(a, b) ==
    IF Len(a) # Len(b) THEN Len(a) > Len(b) ELSE GeqFrom(a, b, Len(a))

\* IEEE 754 binary64.  0.85 is the double Significand085 / 2^53
\* (7656119366529843 / 9007199254740992); a product of an integer below 2^53
\* with it is rounded to 53 significant bits, ties to even.
SignificandBits == 53
Two53 == << 992, 5474, 1992, 9007 >>
Significand085 == << 9843, 6652, 1193, 7656 >>

\* n.q is shifted right until it has at most 53 bits; guard is the last bit
\* shifted out, sticky whether an earlier one was set, s the number of shifts.
RECURSIVE Normalize(_)
Normalize(n) ==
    IF Geq(n.q, Two53)
    THEN Normalize([q |-> Half(n.q), guard |-> Odd(n.q),
                    sticky |-> n.sticky \/ n.guard, s |-> n.s + 1])
    ELSE n

RECURSIVE ShiftRight(_, _)
ShiftRight(x, n) ==
    IF n = 0 \/ x = << >> THEN x ELSE ShiftRight(Half(x), n - 1)

\* Round to nearest, ties to even.
RoundNearestEven(n) ==
    IF n.guard /\ (n.sticky \/ Odd(n.q)) THEN [n EXCEPT !.q = Add(n.q, << 1 >>)]
    ELSE n

\* The integer part of n.q * 2^(n.s - 53).
FloorOf(n) == ShiftRight(n.q, SignificandBits - n.s)

\* Math.round in the place of Math.floor.
RoundTimes085(bandwidth) ==
    DivSmall(Add(MulSmall(bandwidth, 85), Digits(50)), 100)

\* Math.floor(bandwidth * 0.85) for an integer bandwidth below 2^53.
FloorTimes085(bandwidth) ==
    FloorOf(RoundNearestEven(Normalize(
        [q |-> Mul(bandwidth, Significand085), guard |-> FALSE,
         sticky |-> FALSE, s |-> 0])))

\* --------------------------------------------------- the manifest composer
\* The manifest without the last element of the joined array.
buildMasterUnterminated(variant, width, height, bandwidth) ==
    LET avg == FloorTimes085(bandwidth)
    IN  Join(<< "#EXTM3U",
                "#EXT-X-VERSION:7",
                "#EXT-X-STREAM-INF:BANDWIDTH=" \o NumStr(bandwidth)
                    \o ",AVERAGE-BANDWIDTH=" \o NumStr(avg)
                    \o ",RESOLUTION=" \o ToString(width) \o "x" \o ToString(height)
                    \o ",CODECS=\"avc1.64001f,mp4a.40.2\"",
                variant >>)

buildMasterPlaylist(variant, width, height, bandwidth) ==
    LET avg == FloorTimes085(bandwidth)
    IN  Join(<< "#EXTM3U",
                "#EXT-X-VERSION:7",
                "#EXT-X-STREAM-INF:BANDWIDTH=" \o NumStr(bandwidth)
                    \o ",AVERAGE-BANDWIDTH=" \o NumStr(avg)
                    \o ",RESOLUTION=" \o ToString(width) \o "x" \o ToString(height)
                    \o ",CODECS=\"avc1.64001f,mp4a.40.2\"",
                variant,
                "" >>)

\* The body of parseHlsFiles' loop for one line: what the line adds to files.
FilesOfLine(line) ==
    IF line = "" \/ StartsWith(line, "#")
    THEN IF StartsWith(line, "#EXT-X-MAP") /\ MatchUri(line) # NULL
         THEN {MatchUri(line)} ELSE {}
    ELSE {Trim(line)}

parseHlsFiles(playlist) ==
    LET lines == Split(playlist)
    IN  UNION {FilesOfLine(lines[i]) : i \in 1..Len(lines)}

\* transcodeToHls: const width = 1280; const height = 720.
width == 1280
height == 720

\* The composer's functions on their own: parseHlsFiles applied to a playlist
\* text, to the same text again and to its own output written one name per
\* line; buildMasterPlaylist applied to a variant name and a bandwidth.
PlaylistLines ==
    {"#EXTM3U", "#EXT-X-MAP:URI=\"init.mp4\"", "seg0.m4s", "seg1.m4s",
     "", " ", "seg0.m4s\r"}

RECURSIVE TextsOf(_)
TextsOf(n) ==
    IF n = 0 THEN {""}
    ELSE {l \o "\n" \o t : l \in PlaylistLines, t \in TextsOf(n - 1)}

Playlists == UNION {TextsOf(n) : n \in 0..MaxLines}

\* Bandwidths from 0 to just below 2^53: hi * 2^40 + lo.
Two40 == << 7776, 1162, 995, 1 >>
Two50 == << 2624, 684, 8999, 1125 >>
HighParts == {0, 1, 1023, 1205, 8191}

Bandwidths ==
    {Add(MulSmall(Two40, hi), Digits(lo)) : hi \in HighParts, lo \in 0..MaxLow}
    \cup {Digits(approxBitrate)}

Variants == {variantName, "audio.m3u8"}

RECURSIVE SeqOf(_)
SeqOf(S) ==
    IF S = {} THEN << >>
    ELSE LET x == CHOOSE y \in S : TRUE IN << x >> \o SeqOf(S \ {x})

\* A set of names written one name per line.
OutputText(S) == Join(SeqOf(S))

CollectReferencedFiles ==
    /\ "first" \notin composer.done
    /\ composer' = [composer EXCEPT !.referenced = parseHlsFiles(composer.playlist),
                                    !.done = @ \cup {"first"}]
    /\ UNCHANGED <<ledgerVars, engineVars, request, limiter>>

CollectAgain ==
    /\ "first" \in composer.done
    /\ "again" \notin composer.done
    /\ composer' = [composer EXCEPT !.again = parseHlsFiles(composer.playlist),
                                    !.done = @ \cup {"again"}]
    /\ UNCHANGED <<ledgerVars, engineVars, request, limiter>>

CollectFromOutput ==
    /\ "first" \in composer.done
    /\ "output" \notin composer.done
    /\ composer' = [composer EXCEPT
                      !.reparsed = parseHlsFiles(OutputText(composer.referenced)),
                      !.done = @ \cup {"output"}]
    /\ UNCHANGED <<ledgerVars, engineVars, request, limiter>>

BuildMasterManifest ==
    /\ "master" \notin composer.done
    /\ composer' = [composer EXCEPT
                      !.master = buildMasterPlaylist(composer.variant, width, height,
                                                     composer.bandwidth),
                      !.done = @ \cup {"master"}]
    /\ UNCHANGED <<ledgerVars, engineVars, request, limiter>>

\* The same call once more.
BuildMasterAgain ==
    /\ "master" \in composer.done
    /\ "masterAgain" \notin composer.done
    /\ composer' = [composer EXCEPT
                      !.masterAgain = buildMasterPlaylist(composer.variant, width,
                                                          height, composer.bandwidth),
                      !.done = @ \cup {"masterAgain"}]
    /\ UNCHANGED <<ledgerVars, engineVars, request, limiter>>

InitParser ==
    /\ LedgerInit /\ EngineInit /\ RequestIdle /\ LimiterIdle
    /\ composer \in {[IdleComposer EXCEPT !.playlist = t] : t \in Playlists}

NextParser == CollectReferencedFiles \/ CollectAgain \/ CollectFromOutput

SpecParser == InitParser /\ [][NextParser]_vars

InitManifest ==
    /\ LedgerInit /\ EngineInit /\ RequestIdle /\ LimiterIdle
    /\ composer \in {[IdleComposer EXCEPT !.variant = v, !.bandwidth = b] :
                        v \in Variants, b \in Bandwidths}

NextManifest == BuildMasterManifest \/ BuildMasterAgain

SpecManifest == InitManifest /\ [][NextManifest]_vars

\* ---------------------------------------- hlsTranscoder: the codec runtime
\* One browser process.  The calls of transcodeToHls share the module variable
\* ffmpeg and, through it, the runtime's scratch file system and its progress
\* listeners.  A call is suspended at each await, where the other calls run.
inputFile == "input.mp4"

\* The variant playlist ffmpeg's hls muxer writes for k fMP4 segments.
RECURSIVE SegmentLines(_, _)
SegmentLines(i, k) ==
    IF i > k THEN << >>
    ELSE << "#EXTINF:4.000000,", SegName(i) >> \o SegmentLines(i + 1, k)

VariantText(k) ==
    Join(<< "#EXTM3U", "#EXT-X-VERSION:7", "#EXT-X-TARGETDURATION:4",
            "#EXT-X-MAP:URI=\"" \o initName \o "\"" >>
         \o SegmentLines(1, k) \o << "#EXT-X-ENDLIST", "" >>)

\* buildMasterPlaylist({ variant: variantName, width, height, bandwidth })
master == buildMasterPlaylist(variantName, width, height, Digits(approxBitrate))

\* ff.writeFile(name, data)
WriteFile(files, name, data) ==
    [f \in DOMAIN files \cup {name} |-> IF f = name THEN data ELSE files[f]]

\* The files one run of ff.exec leaves: the playlist, the init segment and k
\* segments, encoded from the input of call src.
RECURSIVE WriteSegments(_, _, _)
WriteSegments(files, k, src) ==
    IF k = 0 THEN files
    ELSE WriteSegments(WriteFile(files, SegName(k), [of |-> src, text |-> ""]),
                       k - 1, src)

ExecOutput(files, k, src) ==
    WriteFile(WriteFile(WriteSegments(files, k, src),
                        initName, [of |-> src, text |-> ""]),
              variantName, [of |-> src, text |-> VariantText(k)])

Throw(c, e) == [call EXCEPT ![c] = [@ EXCEPT !.pc = "thrown", !.err = e]]

\* transcodeToHls(media, onProgress) is called and runs into getFFmpeg:
\* if (!ffmpeg) ffmpeg = new FFmpeg(); if (!ffmpeg.loaded) { ... await ... }
\* A loaded runtime is returned as it is.
getFFmpeg(c) ==
    /\ call[c].pc = "idle"
    /\ ffmpeg' = [ffmpeg EXCEPT !.instance = TRUE]
    /\ call' = [call EXCEPT ![c].pc = IF ffmpeg.loaded THEN "t_on" ELSE "g_urls"]
    /\ UNCHANGED <<ledgerVars, fs, composer, request, limiter>>

\* The two toBlobURL fetches have resolved and ffmpeg.load(...) is called, or
\* one of them has rejected.
LoadStart(c, ok) ==
    /\ call[c].pc = "g_urls"
    /\ IF ok
       THEN /\ ffmpeg' = [ffmpeg EXCEPT !.loads = @ + 1, !.loading = @ + 1]
            /\ call' = [call EXCEPT ![c].pc = "g_load"]
       ELSE /\ ffmpeg' = ffmpeg
            /\ call' = Throw(c, "RuntimeUnavailable")
    /\ UNCHANGED <<ledgerVars, fs, composer, request, limiter>>

\* await ffmpeg.load(...) settles.
LoadSettle(c, ok) ==
    /\ call[c].pc = "g_load"
    /\ ffmpeg' = [ffmpeg EXCEPT !.loading = @ - 1, !.loaded = @ \/ ok]
    /\ call' = IF ok THEN [call EXCEPT ![c].pc = "t_on"]
               ELSE Throw(c, "RuntimeUnavailable")
    /\ UNCHANGED <<ledgerVars, fs, composer, request, limiter>>

\* if (onProgress) ff.on('progress', ...): one more listener on the shared
\* runtime; no call removes a listener.  Then await fetchFile(media).
OnProgress(c) ==
    /\ call[c].pc = "t_on"
    /\ ffmpeg' = [ffmpeg EXCEPT !.listeners = @ \cup {c}]
    /\ call' = [call EXCEPT ![c].pc = "t_write"]
    /\ UNCHANGED <<ledgerVars, fs, composer, request, limiter>>

\* await ff.writeFile(inputFile, data)
WriteInput(c, ok) ==
    /\ call[c].pc = "t_write"
    /\ IF ok
       THEN /\ fs' = WriteFile(fs, inputFile, [of |-> c, text |-> ""])
            /\ call' = [call EXCEPT ![c].pc = "t_exec"]
       ELSE /\ fs' = fs
            /\ call' = Throw(c, "IOFailure")
    /\ UNCHANGED <<ledgerVars, ffmpeg, composer, request, limiter>>

\* ff.exec([...]): the runtime's worker takes the command when it is free and
\* encodes the inputFile that is in the scratch file system at that time.
ExecStart(c) ==
    /\ call[c].pc = "t_exec"
    /\ ffmpeg.exec = 0
    /\ ffmpeg' = [ffmpeg EXCEPT !.exec = c, !.input = fs[inputFile].of,
                                !.events = 0]
    /\ call' = [call EXCEPT ![c].pc = "t_running"]
    /\ UNCHANGED <<ledgerVars, fs, composer, request, limiter>>

\* The runtime emits a progress event: every registered listener runs,
\* ({ progress }) => onProgress(Math.min(0.99, progress)).
ExecProgress(r) ==
    /\ ffmpeg.exec # 0
    /\ ffmpeg.events < MaxProgressEvents
    /\ ffmpeg' = [ffmpeg EXCEPT !.events = @ + 1]
    /\ call' = [c \in Callers |->
                  IF c \in ffmpeg.listeners
                  THEN [call[c] EXCEPT !.received = Append(@, CapRatio(r))]
                  ELSE call[c]]
    /\ UNCHANGED <<ledgerVars, fs, composer, request, limiter>>

\* await ff.exec([...]) resolves with the command's exit code, which
\* transcodeToHls does not look at.  A failed command leaves no new output.
ExecExit(c, code, k) ==
    /\ call[c].pc = "t_running"
    /\ ffmpeg.exec = c
    /\ ffmpeg' = [ffmpeg EXCEPT !.exec = 0]
    /\ fs' = IF code = 0 THEN ExecOutput(fs, k, ffmpeg.input) ELSE fs
    /\ call' = [call EXCEPT ![c] = [@ EXCEPT !.pc = "t_read", !.code = code]]
    /\ UNCHANGED <<ledgerVars, composer, request, limiter>>

\* await ff.exec([...]) rejects.
ExecThrow(c) ==
    /\ call[c].pc = "t_running"
    /\ ffmpeg.exec = c
    /\ ffmpeg' = [ffmpeg EXCEPT !.exec = 0]
    /\ call' = [call EXCEPT ![c] = [@ EXCEPT !.pc = "thrown", !.code = 1,
                                             !.err = "EncodeFailure"]]
    /\ UNCHANGED <<ledgerVars, fs, composer, request, limiter>>

\* ff.readFile(variantName), parseHlsFiles(variantText), referenced.add(...)
ReadVariant(c) ==
    /\ call[c].pc = "t_read"
    /\ call' = IF variantName \in DOMAIN fs
               THEN [call EXCEPT ![c] =
                       [@ EXCEPT !.pc = "t_master",
                                 !.referenced = parseHlsFiles(fs[variantName].text)
                                                \cup {variantName, initName}]]
               ELSE Throw(c, "IOFailure")
    /\ UNCHANGED <<ledgerVars, ffmpeg, fs, composer, request, limiter>>

\* ff.writeFile(masterName, masterUint8); referenced.add(masterName)
WriteMaster(c) ==
    /\ call[c].pc = "t_master"
    /\ fs' = WriteFile(fs, masterName, [of |-> c, text |-> master])
    /\ call' = [call EXCEPT ![c] =
                  [@ EXCEPT !.pc = "t_collect", !.referenced = @ \cup {masterName}]]
    /\ UNCHANGED <<ledgerVars, ffmpeg, composer, request, limiter>>

\* The collection loop over the whole scratch file system rather than over
\* referenced.
CollectScratch(c) ==
    /\ call[c].pc = "t_collect"
    /\ call' = [call EXCEPT ![c] =
                  [@ EXCEPT !.pc = "returned",
                            !.files = fs,
                            !.received = Append(@, 1000)]]
    /\ UNCHANGED <<ledgerVars, ffmpeg, fs, composer, request, limiter>>

\* for (const f of referenced) files[f] = await ff.readFile(f); onProgress?.(1);
\* return { files, ... }.  A referenced file that is not there rejects readFile.
Collect(c) ==
    /\ call[c].pc = "t_collect"
    /\ call' = IF call[c].referenced \subseteq DOMAIN fs
               THEN [call EXCEPT ![c] =
                       [@ EXCEPT !.pc = "returned",
                                 !.files = [f \in call[c].referenced |-> fs[f]],
                                 !.received = Append(@, 1000)]]
               ELSE Throw(c, "IOFailure")
    /\ UNCHANGED <<ledgerVars, ffmpeg, fs, composer, request, limiter>>

ExitCodes == {0, 1}

NextEngine ==
    \/ \E c \in Callers : getFFmpeg(c)
    \/ \E c \in Callers, ok \in BOOLEAN : LoadStart(c, ok)
    \/ \E c \in Callers, ok \in BOOLEAN : LoadSettle(c, ok)
    \/ \E c \in Callers : OnProgress(c)
    \/ \E c \in Callers, ok \in BOOLEAN : WriteInput(c, ok)
    \/ \E c \in Callers : ExecStart(c)
    \/ \E r \in Ratios : ExecProgress(r)
    \/ \E c \in Callers, code \in ExitCodes, k \in 1..MaxVariantSegments :
          ExecExit(c, code, k)
    \/ \E c \in Callers : ExecThrow(c)
    \/ \E c \in Callers : ReadVariant(c)
    \/ \E c \in Callers : WriteMaster(c)
    \/ \E c \in Callers : Collect(c)

SpecEngine == Init /\ [][NextEngine]_vars

\* ------------------------------------------------ the entry points' payloads
\* The edge functions as HTTP handlers: what each does with the body of its
\* request before its first ledger access and before the trigger.
HexDigits ==
    {"0", "1", "2", "3", "4", "5", "6", "7", "8", "9",
     "a", "b", "c", "d", "e", "f", "A", "B", "C", "D", "E", "F"}

\* UUID_REGEX.test(s): /^[0-9a-f]{8}-[0-9a-f]{4}-4[0-9a-f]{3}-[89ab][0-9a-f]{3}-[0-9a-f]{12}$/i
UUID_REGEX(s) ==
    /\ Len(s) = 36
    /\ \A i \in 1..36 :
          CASE i \in {9, 14, 19, 24} -> CharAt(s, i) = "-"
            [] i = 15 -> CharAt(s, i) = "4"
            [] i = 20 -> CharAt(s, i) \in {"8", "9", "a", "b", "A", "B"}
            [] OTHER -> CharAt(s, i) \in HexDigits

Str(t) == [type |-> "string", text |-> t, num |-> 0]
Num(n) == [type |-> "number", text |-> "", num |-> n]

\* !!v
Truthy(v) == (v.type = "string" /\ v.text # "") \/ (v.type = "number" /\ v.num # 0)

\* String(v), the coercion RegExp.prototype.test applies to its argument.
ToText(v) ==
    CASE v.type = "string" -> v.text
      [] v.type = "number" -> ToString(v.num)
      [] OTHER -> "undefined"

\* The id column of row 1, and the same id in upper case: the uuid type reads
\* both as one value.
RowId == "123e4567-e89b-42d3-a456-426614174000"
RowIdUpper == "123E4567-E89B-42D3-A456-426614174000"

\* .eq("id", jobId): the row the text names, 0 when it names none.
JobOf(t) == IF t \in {RowId, RowIdUpper} THEN 1 ELSE 0

\* The jobId values of the bodies: missing, empty, the id of a row in both
\* cases, a version-4 id of no row, a version-1 id, text that is no id, an id
\* followed by a line feed, and two numbers.
JobIds ==
    {Undefined, Str(""), Str(RowId), Str(RowIdUpper),
     Str("9b2e8c1a-5d3f-4a7b-8c6d-0e1f2a3b4c5d"),
     Str("123e4567-e89b-12d3-a456-426614174000"),
     Str("not-a-uuid"), Str(RowId \o "\n"), Num(42), Num(0)}

Fns == {"transcode", "start-transcode", "start-transcode-earlier", "bulk-transcode"}

\* transcode and start-transcode: the two checks after req.json(); NULL when
\* neither throws.
JobIdError(v) ==
    IF ~Truthy(v) \/ v.type # "string" THEN "Job ID is required"
    ELSE IF ~UUID_REGEX(v.text) THEN "Invalid job ID format"
    ELSE NULL

\* A request reaches function fn with Authorization of user u and a body that
\* is JSON or not.  For bulk-transcode the body is { jobIds: [v] }, or has no
\* jobIds when v is undefined.  transcode starts at its req.json().
Receive(p, fn, u, json, v, k) ==
    /\ request[p].fn = "none"
    /\ proc[p].pc = "idle"
    /\ json \/ v = Undefined
    /\ fn \in {"transcode", "start-transcode-earlier"} => u = Anon
    /\ request' = [request EXCEPT ![p] =
                     [IdleRequest EXCEPT !.fn = fn, !.pc = "received", !.user = u,
                                         !.json = json, !.jobId = v, !.kind = k]]
    /\ proc' = IF fn = "transcode"
               THEN [proc EXCEPT ![p] = Invocation(k, 0)]
               ELSE proc
    /\ UNCHANGED <<created, ledger, inflight, bulkBatch, engineVars, composer, limiter>>

Reject(p, e) == request' = [request EXCEPT ![p] = [@ EXCEPT !.pc = "rejected", !.err = e]]

\* transcode: const { jobId } = await req.json() and the two checks; the body
\* is consumed whether it parses or not.
EdgeParseJobId(p) ==
    /\ proc[p].pc = "e_parse"
    /\ request[p].fn # "none"
    /\ LET e == IF request[p].json THEN JobIdError(request[p].jobId)
                ELSE "Unexpected token"
       IN  proc' = [proc EXCEPT ![p] =
                      IF e = NULL
                      THEN [@ EXCEPT !.pc = "e_fetch", !.bodyUsed = TRUE,
                                     !.job = JobOf(request[p].jobId.text)]
                      ELSE [@ EXCEPT !.pc = "e_catch", !.bodyUsed = TRUE, !.err = e]]
    /\ UNCHANGED <<created, ledger, inflight, bulkBatch, engineVars, composer, request, limiter>>

\* start-transcode: the Authorization header, auth.getUser() and the rate
\* limit of the user, all before the body is read.
StartAuth(p, limited) ==
    /\ request[p].fn = "start-transcode"
    /\ request[p].pc = "received"
    /\ IF request[p].user = Anon THEN Reject(p, "Unauthorized")
       ELSE IF limited THEN Reject(p, "Rate limit exceeded. Please try again later.")
       ELSE request' = [request EXCEPT ![p].pc = "s_parse"]
    /\ UNCHANGED <<ledgerVars, engineVars, composer, limiter>>

\* start-transcode: req.json() and the two checks.
StartParse(p) ==
    /\ request[p].fn = "start-transcode"
    /\ request[p].pc = "s_parse"
    /\ LET e == IF request[p].json THEN JobIdError(request[p].jobId)
                ELSE "Unexpected token"
       IN  IF e = NULL THEN request' = [request EXCEPT ![p].pc = "s_select"]
           ELSE Reject(p, e)
    /\ UNCHANGED <<ledgerVars, engineVars, composer, limiter>>

\* start-transcode: the ownership select with the caller's client.
StartSelect(p) ==
    /\ request[p].pc = "s_select"
    /\ LET j == JobOf(request[p].jobId.text)
       IN  request' = [request EXCEPT ![p] =
                         IF j \in created /\ RlsAllows(request[p].user, j)
                         THEN [@ EXCEPT !.pc = "s_trigger", !.selected = TRUE]
                         ELSE [@ EXCEPT !.pc = "rejected", !.selected = TRUE,
                                        !.err = "Job not found or access denied"]]
    /\ UNCHANGED <<ledgerVars, engineVars, composer, limiter>>

\* The earlier start-transcode: req.json() and `if (!jobId)`.
EarlierParse(p) ==
    /\ request[p].fn = "start-transcode-earlier"
    /\ request[p].pc = "received"
    /\ IF ~request[p].json THEN Reject(p, "Unexpected token")
       ELSE IF ~Truthy(request[p].jobId) THEN Reject(p, "Job ID is required")
       ELSE request' = [request EXCEPT ![p].pc = "s_trigger"]
    /\ UNCHANGED <<ledgerVars, engineVars, composer, limiter>>

\* bulk-transcode: the Authorization header and auth.getUser(token).
BulkAuth(p) ==
    /\ request[p].fn = "bulk-transcode"
    /\ request[p].pc = "received"
    /\ IF request[p].user = Anon THEN Reject(p, "Unauthorized")
       ELSE request' = [request EXCEPT ![p].pc = "b_parse"]
    /\ UNCHANGED <<ledgerVars, engineVars, composer, limiter>>

\* bulk-transcode: req.json(), the array checks and UUID_REGEX.test on each
\* element, which is not required to be a string.
BulkParse(p) ==
    /\ request[p].pc = "b_parse"
    /\ IF ~request[p].json THEN Reject(p, "Unexpected token")
       ELSE IF request[p].jobId = Undefined THEN Reject(p, "Job IDs array is required")
       ELSE IF ~UUID_REGEX(ToText(request[p].jobId))
            THEN Reject(p, "Invalid job ID format")
       ELSE request' = [request EXCEPT ![p].pc = "b_select"]
    /\ UNCHANGED <<ledgerVars, engineVars, composer, limiter>>

\* bulk-transcode: select("id,status").in("id", jobIds) with the caller's
\* client, then every job found and every job pending.
BulkSelect(p) ==
    /\ request[p].pc = "b_select"
    /\ LET j == JobOf(ToText(request[p].jobId))
       IN  request' = [request EXCEPT ![p] =
                         IF ~(j \in created /\ RlsAllows(request[p].user, j))
                         THEN [@ EXCEPT !.pc = "rejected", !.selected = TRUE,
                                  !.err = "One or more jobs not found or access denied"]
                         ELSE IF ledger[j].status # "pending"
                         THEN [@ EXCEPT !.pc = "rejected", !.selected = TRUE,
                                        !.err = "All jobs must be pending"]
                         ELSE [@ EXCEPT !.pc = "s_trigger", !.selected = TRUE]]
    /\ UNCHANGED <<ledgerVars, engineVars, composer, limiter>>

Finished(p) == proc[p].pc \in {"returned", "caught"}

\* fetch(transcodeUrl, { body: JSON.stringify({ jobId }) }): the transcode
\* function starts with the jobId of this request as its body.  The two
\* start-transcode versions do not await the fetch and return their response
\* at once; bulk-transcode keeps the promise for its Promise.all.
Trigger(p) ==
    /\ request[p].pc = "s_trigger"
    /\ request' = [request EXCEPT ![p] =
                     [@ EXCEPT !.pc = IF request[p].fn = "bulk-transcode"
                                      THEN "b_await" ELSE "responded",
                               !.triggered = TRUE]]
    /\ proc' = [proc EXCEPT ![p] = Invocation(request[p].kind, 0)]
    /\ UNCHANGED <<created, ledger, inflight, bulkBatch, engineVars, composer, limiter>>

\* bulk-transcode: await Promise.all(results).  Each promise settles with the
\* response of the transcode function, which the function returns at the end
\* of its handler.
BulkRespond(p) ==
    /\ request[p].pc = "b_await"
    /\ Finished(p)
    /\ request' = [request EXCEPT ![p].pc = "responded"]
    /\ UNCHANGED <<ledgerVars, engineVars, composer, limiter>>

\* One request at a time, from its receipt to the end of what it starts.
NextEntry ==
    \/ \E j \in Jobs, url \in {"url", ""} : handleUpload(j, url)
    \/ \E p \in Solo, fn \in Fns, u \in {Owner, Other, Anon}, json \in BOOLEAN,
          v \in JobIds, k \in EdgeKinds : Receive(p, fn, u, json, v, k)
    \/ \E p \in Solo : EdgeParseJobId(p)
    \/ \E p \in Solo, limited \in BOOLEAN : StartAuth(p, limited)
    \/ \E p \in Solo : StartParse(p)
    \/ \E p \in Solo : StartSelect(p)
    \/ \E p \in Solo : EarlierParse(p)
    \/ \E p \in Solo : BulkAuth(p)
    \/ \E p \in Solo : BulkParse(p)
    \/ \E p \in Solo : BulkSelect(p)
    \/ \E p \in Solo : Trigger(p)
    \/ \E p \in Solo : BulkRespond(p)
    \/ \E p \in Solo : EdgeFetchJob(p)
    \/ \E p \in Solo : EdgeMark(p)
    \/ \E p \in Solo : EdgeProgress(p)
    \/ \E p \in Solo : EdgeComplete(p)
    \/ \E p \in Solo : MultiNode(p)
    \/ \E p \in Solo, s \in EstimatedSizes : MultiResolution(p, s)
    \/ \E p \in Solo : MultiComplete(p)
    \/ \E p \in Solo : EdgeThrow(p)
    \/ \E p \in Solo : EdgeCatch(p)

SpecEntry == Init /\ [][NextEntry]_vars

\* ----------------------------------------- start-transcode: the rate limit
\* The limit and the window of `userLimit.count >= 10` and `now + 60000`.
RateLimitMax == 10
RateWindowMs == 60000

CountAt(f, u, t) == [f EXCEPT ![u][t] = @ + 1]

\* One request of the authenticated user u, for a job of u, at Date.now() =
\* limiter.now: the rate limit, then the body and the ownership check, which
\* pass, then the trigger.  A request over the limit takes the catch block and
\* is answered 429.
StartTranscodeRequest(u) ==
    /\ limiter.requests < MaxRequests
    /\ LET now == limiter.now
           map == limiter.rateLimitMap
           inWindow == u \in DOMAIN map /\ now < map[u].resetTime
           userLimit == IF inWindow
                        THEN [map[u] EXCEPT !.count = @ + 1]
                        ELSE [count |-> 1, resetTime |-> now + RateWindowMs]
       IN  limiter' =
             IF inWindow /\ map[u].count >= RateLimitMax
             THEN [limiter EXCEPT !.requests = @ + 1,
                                  !.limited = CountAt(@, u, now)]
             ELSE [limiter EXCEPT
                     !.requests = @ + 1,
                     !.rateLimitMap = [x \in DOMAIN map \cup {u} |->
                                          IF x = u THEN userLimit ELSE map[x]],
                     !.admitted = CountAt(@, u, now),
                     !.triggered = CountAt(@, u, now)]
    /\ UNCHANGED <<ledgerVars, engineVars, composer, request>>

\* Time passes between requests.
AdvanceClock ==
    /\ limiter.now < MaxTicks * TickMs
    /\ limiter' = [limiter EXCEPT !.now = @ + TickMs]
    /\ UNCHANGED <<ledgerVars, engineVars, composer, request>>

NextRate ==
    \/ \E u \in Users : StartTranscodeRequest(u)
    \/ AdvanceClock

SpecRate == Init /\ [][NextRate]_vars

\* The browser pipelines alone: every TranscodeButton of every open page, no
\* edge function.
NextClients ==
    \/ \E j \in Jobs, url \in {"url", ""} : handleUpload(j, url)
    \/ \E p \in Procs, j \in Jobs : ClientRender(p, j)
    \/ \E p \in Procs, authed \in BOOLEAN : ClientClick(p, authed)
    \/ \E p \in Procs, ok \in BOOLEAN : ClientFetchJob(p, ok)
    \/ \E p \in Procs : ClientMark(p)
    \/ \E p \in Procs, ok \in BOOLEAN : ClientDownload(p, ok)
    \/ \E p \in Procs, r \in Ratios : TranscodeProgress(p, r)
    \/ \E p \in Procs, b \in Bundles : TranscodeReturn(p, b)
    \/ \E p \in Procs, m \in {"ffmpeg failed", ""} : TranscodeThrow(p, m)
    \/ \E m \in inflight : LedgerProgressWrite(m)
    \/ \E p \in Procs : UploadOk(p)
    \/ \E p \in Procs : UploadFail(p)
    \/ \E p \in Procs : ClientComplete(p)
    \/ \E p \in Procs : ClientCatch(p)

SpecClients == Init /\ [][NextClients]_vars

\* ------------------------------------------------- one pipeline to its end
\* One invocation, browser pipeline or transcode function, with every call it
\* awaits eventually returning or throwing.
PipelineStep ==
    \/ \E p \in Solo, ok \in BOOLEAN : ClientFetchJob(p, ok)
    \/ \E p \in Solo : ClientMark(p)
    \/ \E p \in Solo, ok \in BOOLEAN : ClientDownload(p, ok)
    \/ \E p \in Solo, r \in Ratios : TranscodeProgress(p, r)
    \/ \E p \in Solo, b \in Bundles : TranscodeReturn(p, b)
    \/ \E p \in Solo, m \in {"ffmpeg failed", ""} : TranscodeThrow(p, m)
    \/ \E m \in inflight : LedgerProgressWrite(m)
    \/ \E p \in Solo : UploadOk(p)
    \/ \E p \in Solo : UploadFail(p)
    \/ \E p \in Solo : ClientComplete(p)
    \/ \E p \in Solo : ClientCatch(p)
    \/ \E p \in Solo : EdgeParse(p)
    \/ \E p \in Solo : EdgeFetchJob(p)
    \/ \E p \in Solo : EdgeMark(p)
    \/ \E p \in Solo : EdgeProgress(p)
    \/ \E p \in Solo : EdgeComplete(p)
    \/ \E p \in Solo : MultiNode(p)
    \/ \E p \in Solo, s \in EstimatedSizes : MultiResolution(p, s)
    \/ \E p \in Solo : MultiComplete(p)
    \/ \E p \in Solo : EdgeThrow(p)
    \/ \E p \in Solo : EdgeCatch(p)

NextLive ==
    \/ \E j \in Jobs, url \in {"url", ""} : handleUpload(j, url)
    \/ \E p \in Solo, j \in Jobs : ClientRender(p, j)
    \/ \E p \in Solo, authed \in BOOLEAN : ClientClick(p, authed)
    \/ \E p \in Solo, j \in Jobs, u \in {Owner, Other, Anon}, k \in EdgeKinds :
          StartTranscode(p, j, u, k)
    \/ PipelineStep

SpecLive == Init /\ [][NextLive]_vars /\ WF_vars(PipelineStep)

\* ------------------------------------------------------ state functions
\* The vocabulary of the claims below.
Terminal(st) == st \in {"completed", "failed"}

\* p's pipeline has entered processing (its mark update is done) and has
\* neither returned nor left its catch block.
InFlight(p) == proc[p].marked /\ proc[p].pc \notin {"returned", "caught"}

\* The step is one of p's own.
Moves(p) == proc'[p] # proc[p]

\* p's bundle is stored whole / one of p's uploads has failed.
AllStored(p) ==
    /\ proc[p].hls # NoBundle
    /\ proc[p].okUp = Cardinality(DOMAIN proc[p].hls)
UploadFailed(p) ==
    /\ proc[p].hls # NoBundle
    /\ proc[p].up + proc[p].okUp < Cardinality(DOMAIN proc[p].hls)

\* The step applies a progress update to j's row.
ProgressWriteStep(j) ==
    \/ \E m \in inflight : m.job = j /\ LedgerProgressWrite(m)
    \/ \E p \in Procs :
          /\ proc[p].job = j
          /\ EdgeProgress(p) \/ \E s \in EstimatedSizes : MultiResolution(p, s)

StatusEdges ==
    {<<"pending", "processing">>, <<"processing", "completed">>,
     <<"processing", "failed">>}

\* ------------------------------------------------------------------ claims

\* C1: of two callers that both saw the Job pending and attempt
\* pending -> processing, at most one proceeds with the pipeline; the two are
\* never both past the mark at once.
C1_OneWinnerFromPending ==
    \A p, q \in Procs :
        (p # q /\ proc[p].job = proc[q].job
            /\ proc[p].seen = "pending" /\ proc[q].seen = "pending")
        => ~(InFlight(p) /\ InFlight(q))

\* C2: a pipeline enters processing only from persisted status pending, and
\* no Job ever has two pipelines in flight.
C2_OnePipelinePerJob ==
    [][/\ \A p \in Procs :
            (~proc[p].marked /\ proc'[p].marked)
            => ledger[proc'[p].job].status = "pending"
       /\ \A p, q \in Procs :
            (p # q /\ proc'[p].job = proc'[q].job)
            => ~(InFlight(p)' /\ InFlight(q)')]_vars

\* C3: once a Job's status is completed or failed, no step changes it.
C3_TerminalIsFinal ==
    [][\A j \in created :
          Terminal(ledger[j].status) => ledger'[j].status = ledger[j].status]_vars

\* C4: a Job is created pending and its status changes only along
\* pending -> processing, processing -> completed, processing -> failed.
C4_OnlyLifecycleEdges ==
    [][\A j \in Jobs :
          /\ (j \notin created /\ j \in created') => ledger'[j].status = "pending"
          /\ (j \in created /\ ledger'[j].status # ledger[j].status)
             => <<ledger[j].status, ledger'[j].status>> \in StatusEdges]_vars

\* C5: a progress update applied to a Job in a terminal state leaves its row
\* as it was.
C5_LateProgressIsNoOp ==
    [][\A j \in created :
          (Terminal(ledger[j].status) /\ ProgressWriteStep(j))
          => ledger'[j] = ledger[j]]_vars

\* C6: a processing Job's progress is in 0..100 and no step lowers it while
\* the Job stays processing.
C6_ProgressMonotone ==
    [][\A j \in created :
          ledger'[j].status = "processing"
          => /\ ledger'[j].progress \in 0..100
             /\ ledger[j].status = "processing"
                => ledger'[j].progress >= ledger[j].progress]_vars

\* C7: when the handler of an exception raised after the Job entered
\* processing finishes, the Job is failed with a non-empty error_message.
C7_ExceptionEndsFailed ==
    [][\A p \in Procs :
          (proc[p].marked /\ proc[p].pc \in {"c_catch", "e_catch"}
              /\ proc'[p].pc = "caught")
          => /\ ledger'[proc[p].job].status = "failed"
             /\ ledger'[proc[p].job].error_message \notin {NULL, ""}]_vars

\* C8: a completed Job has a bundle stored whole by one of its pipelines, and
\* no pipeline of a completed Job has had an upload fail.
C8_CompletedOnlyWhenStored ==
    \A j \in created :
        ledger[j].status = "completed"
        => /\ \E p \in Procs : proc[p].job = j /\ AllStored(p)
           /\ \A p \in Procs : proc[p].job = j => ~UploadFailed(p)

\* C9: a step of a pipeline that has not entered processing (and does not
\* enter it by this step) leaves the Job's row unchanged.
C9_AbortLeavesRow ==
    [][\A p \in Procs :
          (Moves(p) /\ proc[p].job \in created
              /\ ~proc[p].marked /\ ~proc'[p].marked)
          => ledger'[proc[p].job] = ledger[proc[p].job]]_vars

\* C10: output_url, a non-empty resolution_variants and a non-zero
\* total_size_bytes occur only on completed Jobs.
C10_OutputsOnlyOnCompleted ==
    \A j \in created :
        ledger[j].status # "completed"
        => /\ ledger[j].output_url = NULL
           /\ ledger[j].resolution_variants = << >>
           /\ ledger[j].total_size_bytes = 0

\* C11: a Job carries an error_message only while its status is failed.
C11_ErrorMessageOnlyOnFailed ==
    \A j \in created :
        ledger[j].error_message # NULL => ledger[j].status = "failed"

\* A call is between its scratch write and the end of its artifact collection.
Encoding(c) == call[c].pc \in {"t_exec", "t_running", "t_read", "t_master", "t_collect"}

\* C12: the values the progress callback of a successful transcodeToHls call
\* has received end with one 1.0, and every value before it is at most 0.99.
C12_ProgressEndsWithOne ==
    \A c \in Callers :
        call[c].pc = "returned"
        => LET r == call[c].received
           IN  /\ r # << >>
               /\ r[Len(r)] = 1000
               /\ \A i \in 1..Len(r) - 1 : r[i] <= MaxRatioMilli

\* C13: ffmpeg.load is started only when the runtime is neither loaded nor
\* being loaded by another caller.
C13_LoadedOnce ==
    [][ffmpeg'.loads > ffmpeg.loads
          => (~ffmpeg.loaded /\ ffmpeg.loading = 0)]_vars

\* C14: at most one transcodeToHls call at a time is between its scratch
\* write and its artifact collection.
C14_OneEncodeInFlight ==
    \A c, d \in Callers : (c # d /\ Encoding(c)) => ~Encoding(d)

\* C15: a call whose codec command exited with a non-zero code or threw
\* returns no bundle.
C15_FailedEncodeReturnsNothing ==
    \A c \in Callers : call[c].pc = "returned" => call[c].code = 0

\* C16: the master manifest of a returned bundle references exactly
\* variantName, and the bundle holds masterName, variantName and every file
\* its variant playlist references.
C16_BundleClosed ==
    \A c \in Callers :
        call[c].pc = "returned"
        => LET files == call[c].files
           IN  /\ {masterName, variantName} \subseteq DOMAIN files
               /\ parseHlsFiles(files[masterName].text) = {variantName}
               /\ parseHlsFiles(files[variantName].text) \subseteq DOMAIN files

\* A blank line, a comment line, and the value of an attribute of a tag line.
Blank(line) == Trim(line) = ""
Comment(line) == StartsWith(line, "#")

AttrStart(line, name) ==
    MinOf({i \in 2..Len(line) :
              /\ CharAt(line, i - 1) \in {":", ","}
              /\ i + Len(name) <= Len(line)
              /\ SubSeq(line, i, i + Len(name)) = name \o "="}) + Len(name) + 1

AttrValue(line, name) ==
    LET from == AttrStart(line, name)
        to == MinOf({j \in from..Len(line) + 1 :
                        j > Len(line) \/ CharAt(line, j) = ","})
    IN  SubSeq(line, from, to - 1)

\* The set the playlist denotes: its non-comment, non-blank lines and the URI
\* of its #EXT-X-MAP tags.
ReferencedBy(text) ==
    LET lines == Split(text)
    IN  {Trim(lines[i]) : i \in {k \in 1..Len(lines) :
                                    ~Blank(lines[k]) /\ ~Comment(lines[k])}}
        \cup {MatchUri(lines[i]) : i \in {k \in 1..Len(lines) :
                                    /\ StartsWith(lines[k], "#EXT-X-MAP")
                                    /\ MatchUri(lines[k]) # NULL}}

\* C17: parseHlsFiles returns exactly the non-comment, non-blank lines of the
\* playlist and the quoted URI of its #EXT-X-MAP tags; blank and
\* whitespace-only lines add nothing.
C17_ExactlyReferenced ==
    "first" \in composer.done
    => composer.referenced = ReferencedBy(composer.playlist)

\* C18: a second run of parseHlsFiles on the same text, and a run on its own
\* output written one name per line, both yield the set of the first run.
C18_ParseIdempotent ==
    /\ "again" \in composer.done => composer.again = composer.referenced
    /\ "output" \in composer.done => composer.reparsed = composer.referenced

\* The manifest built for bandwidth B has exactly one #EXT-X-STREAM-INF line,
\* with BANDWIDTH = B and AVERAGE-BANDWIDTH = floor(85 * B / 100).
StreamInfOk ==
    LET lines == Split(composer.master)
        inf == {i \in 1..Len(lines) : StartsWith(lines[i], "#EXT-X-STREAM-INF")}
    IN  /\ Cardinality(inf) = 1
        /\ \A i \in inf :
              /\ AttrValue(lines[i], "BANDWIDTH") = NumStr(composer.bandwidth)
              /\ AttrValue(lines[i], "AVERAGE-BANDWIDTH")
                    = NumStr(DivSmall(MulSmall(composer.bandwidth, 85), 100))

\* C19 (as stated): for every variant name and every non-negative integer
\* bandwidth B the manifest has exactly one #EXT-X-STREAM-INF line, with
\* BANDWIDTH = B and AVERAGE-BANDWIDTH = floor(85 * B / 100).
C19_AverageBandwidth == "master" \in composer.done => StreamInfOk

\* C19 (amended): the same for every bandwidth B below 2^50; from 2^50 / 0.85
\* on, the rounding of the binary64 product B * 0.85 can reach the next integer.
C19_AverageBandwidthBelow2p50 ==
    ("master" \in composer.done /\ ~Geq(composer.bandwidth, Two50)) => StreamInfOk

\* The manifest of the bandwidth transcodeToHls passes has been built.
C19_Witness ==
    /\ "master" \in composer.done
    /\ composer.bandwidth = Digits(approxBitrate)
    /\ composer.variant = variantName
    /\ AttrValue(Split(composer.master)[3], "AVERAGE-BANDWIDTH") = "1808800"

\* The jobId of p's request is a string matching the UUID pattern.
WellFormed(p) ==
    /\ request[p].json
    /\ request[p].jobId.type = "string"
    /\ UUID_REGEX(request[p].jobId.text)

\* p's request has read or written the ledger: the ownership select of the
\* trigger function, or the select or the mark of the transcode function.
LedgerAccessed(p) ==
    \/ request[p].selected
    \/ proc[p].seen # NULL
    \/ proc[p].err = "Job not found"
    \/ proc[p].marked

\* C20: every entry point validates the jobId of its payload before any ledger
\* read or write and before it triggers the transcode function: a request
\* whose jobId is missing or is not a string matching the UUID pattern
\* accesses no row and triggers nothing.
C20_ValidatedBeforeAccess ==
    \A p \in Procs :
        (request[p].fn # "none" /\ ~WellFormed(p))
        => (~LedgerAccessed(p) /\ ~request[p].triggered)

\* The instants of the one-minute span that starts at s.
Span(s) == {t \in Times : s <= t /\ t < s + RateWindowMs}

\* C21: start-transcode admits at most 10 requests per user in any one-minute
\* span, so no more than 10 transcodes per user are triggered in it, and a
\* request is answered 429 only when its own user has had 10 admitted within
\* the minute that ends with it.
C21_TenPerMinute ==
    \A u \in Users, s \in Times :
        /\ SumOver(limiter.admitted[u], Span(s)) <= RateLimitMax
        /\ SumOver(limiter.triggered[u], Span(s)) <= RateLimitMax
        /\ limiter.limited[u][s] > 0
           => SumOver(limiter.admitted[u],
                      {t \in Times : t <= s /\ s < t + RateWindowMs}) >= RateLimitMax

\* C22: bulk-transcode triggers the transcode of a job only while the job is
\* visible to the caller and pending: at every step that takes a job out of
\* the checked batch and triggers it, the row exists and its status is
\* pending.
C22_BulkTriggersOnlyPending ==
    [][\A j \in Jobs :
          (j \in bulkBatch /\ j \notin bulkBatch')
          => (j \in created /\ ledger[j].status = "pending")]_vars

\* C23: the handler that triggers a job's pipeline does not await it: while
\* the transcode invocation a request has triggered is still running, the
\* request has already been answered.
C23_ResponseNotAwaited ==
    \A p \in Procs :
        (request[p].triggered /\ ~Finished(p)) => request[p].pc = "responded"

\* C24: the manifest is exactly four lines in the fixed order #EXTM3U,
\* #EXT-X-VERSION, the #EXT-X-STREAM-INF line with its attributes in the order
\* BANDWIDTH, AVERAGE-BANDWIDTH, RESOLUTION, CODECS, then the variant playlist
\* name; it ends with a single trailing newline; the same inputs give the same
\* text.
C24_ManifestLayout ==
    "master" \in composer.done =>
        LET lines == Split(composer.master)
        IN  /\ Len(lines) = 5
            /\ lines[1] = "#EXTM3U"
            /\ StartsWith(lines[2], "#EXT-X-VERSION:")
            /\ StartsWith(lines[3], "#EXT-X-STREAM-INF:")
            /\ AttrStart(lines[3], "BANDWIDTH") < AttrStart(lines[3], "AVERAGE-BANDWIDTH")
            /\ AttrStart(lines[3], "AVERAGE-BANDWIDTH") < AttrStart(lines[3], "RESOLUTION")
            /\ AttrStart(lines[3], "RESOLUTION") < AttrStart(lines[3], "CODECS")
            /\ lines[4] = composer.variant
            /\ lines[4] # ""
            /\ lines[5] = ""
            /\ "masterAgain" \in composer.done
               => composer.masterAgain = composer.master

\* The manifest transcodeToHls builds, built twice.
C24_Witness ==
    /\ "masterAgain" \in composer.done
    /\ composer.master =
          "#EXTM3U\n#EXT-X-VERSION:7\n"
          \o "#EXT-X-STREAM-INF:BANDWIDTH=2128000,AVERAGE-BANDWIDTH=1808800,"
          \o "RESOLUTION=1280x720,CODECS=\"avc1.64001f,mp4a.40.2\"\n"
          \o "v720p.m3u8\n"

\* p's step is the completion update of startTranscode, applied to a row p's
\* user may write.
ClientCompletes(p) ==
    /\ proc[p].pc = "c_upload"
    /\ proc'[p].pc = "returned"
    /\ proc[p].job \in created
    /\ RlsAllows(proc[p].user, proc[p].job)

\* C25: on a Job the client pipeline writes as completed, every artifact of
\* the bundle has been persisted, total_size_bytes is the sum of their byte
\* lengths, resolution_variants has exactly one descriptor, and the
\* descriptor's size_bytes equals total_size_bytes.
C25_SizesOfCompleted ==
    [][\A p \in Procs :
          ClientCompletes(p) =>
              LET row == ledger'[proc[p].job]
                  hls == proc[p].hls
              IN  /\ row.status = "completed"
                  /\ proc[p].okUp = Cardinality(DOMAIN hls)
                  /\ row.total_size_bytes = SumOver(hls, DOMAIN hls)
                  /\ Len(row.resolution_variants) = 1
                  /\ row.resolution_variants[1].size_bytes = row.total_size_bytes]_vars

\* A row completed by the client pipeline: the bundle of two playlists, the
\* init segment and one segment of two bytes, five bytes in all.
C25_Witness ==
    \E p \in Procs :
        /\ proc[p].pc = "returned"
        /\ proc[p].okUp = 4
        /\ ledger[proc[p].job].status = "completed"
        /\ ledger[proc[p].job].total_size_bytes = 5
        /\ Len(ledger[proc[p].job].resolution_variants) = 1

\* C26: the source media written to the scratch file system as input.<ext> is
\* never a key of the returned bundle; its keys are the variant playlist, the
\* init segment, the master manifest and segment files.
C26_InputNotInBundle ==
    \A c \in Callers :
        call[c].pc = "returned" =>
            /\ inputFile \notin DOMAIN call[c].files
            /\ DOMAIN call[c].files \subseteq
                  {variantName, initName, masterName}
                  \cup {SegName(i) : i \in 1..MaxVariantSegments}

\* A call has returned a bundle with a segment while its input is still in
\* the scratch file system.
C26_Witness ==
    \E c \in Callers :
        /\ call[c].pc = "returned"
        /\ inputFile \in DOMAIN fs
        /\ fs[inputFile].of = c
        /\ SegName(1) \in DOMAIN call[c].files

\* C27: every Job that enters processing eventually reaches completed or
\* failed, every awaited call eventually returning or throwing.
C27_ProcessingEnds ==
    \A j \in Jobs :
        (j \in created /\ ledger[j].status = "processing")
        ~> Terminal(ledger[j].status)

\* C28: progress events reach only the callback of the invocation whose encode
\* emits them: a step that delivers a progress value to the callback of call c
\* is a step of c's own encode or c's own final onProgress(1), so the callback
\* of a call that has finished is never invoked again.
C28_ProgressStaysInCall ==
    [][\A c \in Callers :
          call'[c].received # call[c].received
          => \/ ffmpeg.exec = c
             \/ (call[c].pc = "t_collect" /\ call'[c].pc = "returned")]_vars

\* C29: every artifact of the bundle a transcodeToHls call returns was
\* produced by that call, from its own input: no file an earlier call left in
\* the scratch file system is returned by a later call.
C29_BundleIsOwn ==
    \A c \in Callers :
        call[c].pc = "returned"
        => \A f \in DOMAIN call[c].files : call[c].files[f].of = c

\* C30: in every ledger state the browser pipelines write, a Job in processing
\* has progress between 1 and 99, progress is 100 only on a completed Job, and
\* the engine's final ratio 1.0 is stored as 99.
C30_ProgressRange ==
    /\ PercentOf(1000) = MaxPercent
    /\ \A j \in created :
          /\ ledger[j].status = "processing"
             => (MinPercent <= ledger[j].progress /\ ledger[j].progress <= MaxPercent)
          /\ ledger[j].progress = CompletedProgress => ledger[j].status = "completed"

====
